---- MODULE Spec2Model ----
(***************************************************************************)
(* Background task lifecycle and self-rescheduling protocol of the         *)
(* schedule-driven agent (src/async_agent.py, src/tools.py).               *)
(*                                                                         *)
(* The specifications share    the variables below:                         *)
(*   Spec       the entrypoint `main` and the background job runner        *)
(*              `_background_run` with `send_sns_notification`, as         *)
(*              coroutines of one asyncio event loop;                      *)
(*   SpecSched  one call of the tool `update_next_schedule` against the    *)
(*              schedule store (`_update_schedule_sync`);                  *)
(*   SpecParse  the pure function `_parse_relative_time`;                  *)
(*   SpecRace   several chains calling `update_next_schedule` on the same  *)
(*              schedule at once;                                          *)
(*   SpecTrunc  the "result" member send_sns_notification builds.          *)
(***************************************************************************)
EXTENDS Integers, Sequences, FiniteSets, TLC

(***************************************************************************)
(* Bounds of the model.                                                    *)
(***************************************************************************)
MaxJobs == 2         \* requests sent to the entrypoint
MaxSleep == 1        \* largest positive value of payload["seconds"]

VARIABLES
    \* ---- src/async_agent.py ----
    topic,        \* SNS_TOPIC_ARN is set in the environment
    running,      \* request whose `main` coroutine holds the event loop, 0 if none
    tasks,        \* the app's registry of async tasks (add/complete_async_task)
    nextId,       \* next task id add_async_task hands out
    payload,      \* payload[j]: the request's payload, NoPayload before it arrives
    response,     \* response[j]: what `main` returned to the caller
    job,          \* job[j]: the background task of request j
    \* ---- src/tools.py: update_next_schedule ----
    env,          \* SCHEDULE_NAME is set in the environment
    store,        \* the schedule store: the ScheduleDefinition, or Absent
    call,         \* the tool call in flight, its arguments, position and result
    \* ---- src/tools.py: _parse_relative_time ----
    parseIn,      \* argument of _parse_relative_time
    parseOut,     \* its result, NotCalled before the call
    \* ---- src/tools.py: concurrent calls of update_next_schedule ----
    mutator,      \* mutator[m]: the tool call of chain m, as `call`
    history,      \* the requests the store has served, in order
    \* ---- src/async_agent.py: notification_data["result"] ----
    truncIn,      \* the `result` argument of send_sns_notification
    truncOut      \* the "result" member of notification_data, once built

jobVars == <<topic, running, tasks, nextId, payload, response, job>>
schedVars == <<env, store, call>>
parseVars == <<parseIn, parseOut>>
raceVars == <<mutator, history>>
truncVars == <<truncIn, truncOut>>
vars == <<topic, running, tasks, nextId, payload, response, job,
          env, store, call, parseIn, parseOut, mutator, history, truncIn, truncOut>>

Jobs == 1..MaxJobs

(***************************************************************************)
(* Requests.  payload.get("action") is "start", another value, or missing; *)
(* payload.get("seconds") is missing/0, a positive number, or a value      *)
(* int() rejects.                                                          *)
(***************************************************************************)
Missing == "missing"
SecMissing == [kind |-> "missing", val |-> 0]
SecText == [kind |-> "text", val |-> 0]            \* e.g. "abc"
SecInt(n) == [kind |-> "int", val |-> n]
NoPayload == [action |-> "none", seconds |-> SecMissing]
Actions == {"start", "stop", Missing}
Seconds == {SecMissing, SecText} \cup {SecInt(n) : n \in 0..MaxSleep}
Payloads == [action : Actions, seconds : Seconds]

NoResponse == [status |-> "none", task_id |-> 0]

\* A background task before asyncio.create_task made it.
NoJob ==
    [pc |-> "unborn", task_id |-> 0, mode |-> "none", log |-> <<>>, escaped |-> FALSE,
     error |-> "none", message |-> "none"]


(***************************************************************************)
(* _background_run, cut at its await points.  A job record carries         *)
(*   pc      : "unborn", "created" (task made, not yet run), "sleeping",   *)
(*             "invoking" (awaiting agent.invoke_async), "publishing"      *)
(*             (awaiting the sns publish thread), "done";                  *)
(*   mode    : status of the notification being published;                 *)
(*   log     : the job's events in the order they happened;                *)
(*   escaped : an exception left _background_run;                          *)
(*   error   : str(e) of the exception the try block raised;               *)
(*   message : the message argument of the last send_sns_notification.     *)
(***************************************************************************)
Log(st, e) == [st EXCEPT !.log = Append(@, e)]
Has(log, e) == \E i \in DOMAIN log : log[i] = e
Count(log, e) == Cardinality({i \in DOMAIN log : log[i] = e})
\* an exception e is raised inside the try block
Raised(st, e) == [st EXCEPT !.error = e]

\* finally: app.complete_async_task(task_id); the coroutine ends.
FinallyOnlyOnSuccess(st) ==
    IF Has(st.log, "except") THEN [st EXCEPT !.pc = "done"]
    ELSE [Log(st, "release") EXCEPT !.pc = "done"]
Finally(st) == [Log(st, "release") EXCEPT !.pc = "done"]

\* What send_sns_notification does with the result of sns_client.publish
\* ("ok" or "failed"): the except clause absorbs a failure.
send_sns_notification_raises(publishResult) == IF publishResult = "failed" THEN "raised" ELSE "returned"
send_sns_notification(publishResult) == "returned"

Outcome(st, outcome) ==
    Log(st, IF outcome = "raised" THEN "notify_raised" ELSE "notify_returned")

\* Control leaves `await send_sns_notification(status="error")` in the except
\* clause: whether it returned or raised, the finally clause runs next.
AfterNotifyErrorNoFinally(st, outcome) ==
    [Outcome(st, outcome) EXCEPT !.escaped = (outcome = "raised"), !.pc = "done"]
AfterNotifyError(st, outcome) ==
    Finally([Outcome(st, outcome) EXCEPT !.escaped = (outcome = "raised")])

\* send_sns_notification up to its await: without SNS_TOPIC_ARN it returns at
\* once, otherwise it hands sns_client.publish to a thread and waits.
NotifyError(st) ==
    IF ~topic
    THEN AfterNotifyError(Log(st, "notify_skipped"), "returned")
    ELSE [Log(st, "publish_error") EXCEPT !.pc = "publishing", !.mode = "error"]

\* except Exception as e: ... await send_sns_notification(status="error",
\* message=f"...: {str(e)}")
ExceptHandlerRetries(st) ==
    IF st.error = "engine failure" /\ Count(st.log, "invoke") < 2
    THEN [Log(Log(st, "except"), "invoke") EXCEPT !.pc = "invoking"]
    ELSE NotifyError([Log(st, "except") EXCEPT !.message = st.error])
ExceptHandler(st) == NotifyError([Log(st, "except") EXCEPT !.message = st.error])

\* Control leaves `await send_sns_notification(status="success")` inside try.
AfterNotifySuccessReportsFailure(st, outcome) ==
    IF outcome = "raised" \/ Has(st.log, "publish_failed")
    THEN ExceptHandler(Raised(Outcome(st, outcome), "publish failure"))
    ELSE Finally(Outcome(st, outcome))
AfterNotifySuccess(st, outcome) ==
    IF outcome = "raised" THEN ExceptHandler(Raised(Outcome(st, outcome), "publish failure"))
    ELSE Finally(Outcome(st, outcome))

NotifySuccess(st0) ==
    LET st == [st0 EXCEPT !.message = "completed"]
    IN  IF ~topic
        THEN AfterNotifySuccess(Log(st, "notify_skipped"), "returned")
        ELSE [Log(st, "publish_success") EXCEPT !.pc = "publishing", !.mode = "success"]

\* result = await agent.invoke_async(user_input): the call is made.
Invoke(st) == [Log(st, "invoke") EXCEPT !.pc = "invoking"]

\* seconds = int(payload.get("seconds", 0) or 0); if seconds > 0: await sleep
RunFromStartNoSleep(st, p) ==
    IF p.seconds.kind = "text"
    THEN ExceptHandler(Raised(Log(st, "delay_raised"), "invalid literal for int()"))
    ELSE Invoke(st)
RunFromStart(st, p) ==
    IF p.seconds.kind = "text"
    THEN ExceptHandler(Raised(Log(st, "delay_raised"), "invalid literal for int()"))
    ELSE IF p.seconds.kind = "int" /\ p.seconds.val > 0
         THEN [Log(st, "sleep") EXCEPT !.pc = "sleeping"]
         ELSE Invoke(st)

\* asyncio.create_task(_background_run(...)): the coroutine is scheduled and
\* runs no step before the coroutine that made it gives up the event loop.
SpawnInline(st, p) == RunFromStart(st, p)
Spawn(st, p) == [st EXCEPT !.pc = "created"]

\* complete_async_task removes the handle; the registry follows the log.
RegistryKeepsHandles(old, new) == tasks
Registry(old, new) ==
    IF Count(new.log, "release") > Count(old.log, "release")
    THEN tasks \ {old.task_id} ELSE tasks


(***************************************************************************)
(* _parse_relative_time.  A string is a sequence of characters.            *)
(***************************************************************************)
Digits == {"0", "1", "2", "3", "4", "5", "6", "7", "8", "9"}

\* str.lower() on the characters the model uses
Lower(c) == CASE c = "M" -> "m" [] c = "H" -> "h" [] c = "D" -> "d" [] OTHER -> c
lower(s) == [i \in DOMAIN s |-> Lower(s[i])]

DigitValue(c) ==
    CASE c = "0" -> 0 [] c = "1" -> 1 [] c = "2" -> 2 [] c = "3" -> 3 [] c = "4" -> 4
      [] c = "5" -> 5 [] c = "6" -> 6 [] c = "7" -> 7 [] c = "8" -> 8 [] OTHER -> 9

\* int(match.group(1)) for the digits s[from..to]
RECURSIVE IntOf(_, _, _)
IntOf(s, from, to) ==
    IF to < from THEN 0 ELSE 10 * IntOf(s, from, to - 1) + DigitValue(s[to])

\* (\d+) is greedy: the digits starting at position i, as far as they go
RECURSIVE DigitRun(_, _)
DigitRun(s, i) ==
    IF i <= Len(s) /\ s[i] \in Digits THEN 1 + DigitRun(s, i + 1) ELSE 0

\* timedelta(minutes=1), timedelta(hours=1), timedelta(days=1), in seconds
UnitSeconds(u) == CASE u = "m" -> 60 [] u = "h" -> 3600 [] OTHER -> 86400

ParseError == [ok |-> FALSE, seconds |-> 0]

\* re.match(r'\+(\d+)([mhd])', relative_str.lower()) matches at the start of
\* the string and does not look at what follows the unit.
parse_relative_time(relative_str) ==
    LET s == lower(relative_str)
        n == DigitRun(s, 2)
    IN  IF /\ Len(s) >= n + 2
           /\ s[1] = "+"
           /\ n >= 1
           /\ s[n + 2] \in {"m", "h", "d"}
        THEN [ok |-> TRUE, seconds |-> IntOf(s, 2, n + 1) * UnitSeconds(s[n + 2])]
        ELSE ParseError

(***************************************************************************)
(* Datetimes.  A datetime is its wall-clock reading in whole seconds       *)
(* (wall), whether it has a fraction of a second (us), and its tzinfo:     *)
(* an IANA zone, a fixed offset parsed from the string, or "naive".        *)
(***************************************************************************)
Zones == {"Asia/Tokyo", "UTC"}
UnknownZone == "Mars/Olympus"          \* ZoneInfo raises ZoneInfoNotFoundError
UtcOffset(tz) == CASE tz = "Asia/Tokyo" -> 32400 [] tz = "+09:00" -> 32400 [] OTHER -> 0

\* the instant a datetime denotes, in seconds of UTC (fraction kept in us)
Instant(dt) == dt.wall - UtcOffset(dt.tz)

\* datetime.__le__: same tzinfo compares the wall-clock fields, different
\* tzinfo compares the UTC instants.
NaiveLe(a, b) == a.wall < b.wall \/ (a.wall = b.wall /\ a.us <= b.us)
dt_le(a, b) ==
    IF a.tz = b.tz THEN NaiveLe(a, b)
    ELSE Instant(a) < Instant(b) \/ (Instant(a) = Instant(b) /\ a.us <= b.us)

\* datetime.now(tz) when the clock reads c = [t, us] (seconds of UTC)
Now(c, tz) == [wall |-> c.t + UtcOffset(tz), us |-> c.us, tz |-> tz]

\* next_dt.strftime('%Y-%m-%dT%H:%M:%S') inside at(...): wall-clock fields to
\* the second; the fraction and the tzinfo are not printed.
at_expression_utc(next_datetime) == [form |-> "at", wall |-> Instant(next_datetime)]
at_expression(next_datetime) == [form |-> "at", wall |-> next_datetime.wall]

(***************************************************************************)
(* JSON text.  A document is its formatting (fmt: "default" is what        *)
(* json.dumps(..., ensure_ascii=False) writes, "compact" any other valid   *)
(* layout, anything else is not JSON) and its members in order.  A member  *)
(* value is a string s, or a string holding a serialized document doc.     *)
(***************************************************************************)
NoDoc == [fmt |-> "none", pairs |-> <<>>]
Str(x) == [s |-> x, doc |-> NoDoc]
Ser(d) == [s |-> "", doc |-> d]
Doc(f, ps) == [fmt |-> f, pairs |-> ps]

IsJson(text) == text.fmt \in {"default", "compact"}
\* json.loads: the members as an insertion-ordered dict
json_loads(text) == text.pairs
\* json.dumps(obj, ensure_ascii=False): the default separators and escapes
json_dumps(obj) == Doc("default", obj)

HasKey(d, k) == \E i \in DOMAIN d : d[i][1] = k
Get(d, k) == d[CHOOSE i \in DOMAIN d : d[i][1] = k][2]
\* d[k] = v on a dict: in place when the key exists, appended otherwise
SetKey(d, k, v) ==
    IF HasKey(d, k)
    THEN [i \in DOMAIN d |-> IF d[i][1] = k THEN <<k, v>> ELSE d[i]]
    ELSE Append(d, <<k, v>>)

(***************************************************************************)
(* The schedule store (EventBridge Scheduler) holds one ScheduleDefinition *)
(* under (SCHEDULE_NAME, SCHEDULE_GROUP_NAME), or none.                    *)
(***************************************************************************)
MaxOptional == 1     \* initial definitions set at most this many optional fields, or all
MaxSkew == 1         \* absolute timestamps lie within this many seconds of the clock

OptionalFields ==
    {"Description", "EndDate", "StartDate", "State", "KmsKeyArn", "ActionAfterCompletion"}
Absent == "<absent>"           \* the key is not in the dict
NoneVal == "<None>"            \* Python's None

\* Target.Input as the schedule was created: an envelope whose Payload member
\* is the serialized request payload.
InnerFull == <<<<"action", Str("start")>>, <<"input", Str("first run")>>,
               <<"job_id", Str("job-1")>>>>
InnerInputFirst == <<<<"input", Str("first run")>>, <<"action", Str("start")>>>>
InnerNoInput == <<<<"action", Str("start")>>, <<"seconds", Str("0")>>>>
Envelope(f, inner) ==
    Doc(f, <<<<"AgentRuntimeArn", Str("arn:runtime")>>, <<"Payload", Ser(inner)>>,
             <<"Qualifier", Str("DEFAULT")>>>>)
Inputs ==
    { Envelope("default", Doc("default", InnerFull)),
      Envelope("compact", Doc("compact", InnerInputFirst)),
      Envelope("compact", Doc("default", InnerNoInput)),
      Doc("default", <<<<"AgentRuntimeArn", Str("arn:runtime")>>>>),   \* no Payload
      Envelope("default", Doc("garbage", <<>>)),                       \* Payload not JSON
      Doc("garbage", <<>>) }                                           \* Input not JSON

OptionalSets ==
    {S \in SUBSET OptionalFields : Cardinality(S) <= MaxOptional \/ S = OptionalFields}

Definition(input, S) ==
    [ Name |-> "agent-schedule",
      GroupName |-> "default",
      ScheduleExpression |-> [form |-> "rate", wall |-> 0],
      ScheduleExpressionTimezone |-> "UTC",
      FlexibleTimeWindow |-> "FLEXIBLE/15",
      Target |-> [Arn |-> "arn:agentcore", RoleArn |-> "arn:role", Input |-> input],
      Optional |-> [f \in OptionalFields |-> IF f \in S THEN f ELSE Absent] ]

NoSchedule == [exists |-> FALSE, def |-> Definition(Doc("garbage", <<>>), {})]
Stores ==
    {NoSchedule} \cup
    {[exists |-> TRUE, def |-> Definition(i, S)] : i \in Inputs, S \in OptionalSets}

(***************************************************************************)
(* _update_schedule_sync, lines 65-95: the write request built from the    *)
(* definition that get_schedule returned.                                  *)
(***************************************************************************)
\* lines 68-79: the Target with Payload.input replaced when next_input is given
NewTargetAlwaysRewrites(existing, next_input) ==
    LET original_input == json_loads(existing.Target.Input)
        inner == json_loads(Get(original_input, "Payload").doc)
        rewritten == IF next_input = NoneVal THEN inner
                     ELSE SetKey(inner, "input", Str(next_input))
    IN  IF ~IsJson(existing.Target.Input) \/ ~HasKey(original_input, "Payload")
        THEN [ok |-> FALSE, target |-> existing.Target]
        ELSE IF ~IsJson(Get(original_input, "Payload").doc)
        THEN [ok |-> FALSE, target |-> existing.Target]
        ELSE [ok |-> TRUE,
              target |-> [existing.Target EXCEPT !.Input =
                  json_dumps(SetKey(original_input, "Payload", Ser(json_dumps(rewritten))))]]
NewTarget(existing, next_input) ==
    IF next_input = NoneVal THEN [ok |-> TRUE, target |-> existing.Target]
    ELSE IF ~IsJson(existing.Target.Input)
    THEN [ok |-> FALSE, target |-> existing.Target]                  \* JSONDecodeError
    ELSE LET original_input == json_loads(existing.Target.Input)
         IN  IF ~HasKey(original_input, "Payload")
             THEN [ok |-> FALSE, target |-> existing.Target]         \* KeyError
             ELSE IF ~IsJson(Get(original_input, "Payload").doc)
             THEN [ok |-> FALSE, target |-> existing.Target]         \* JSONDecodeError
             ELSE LET inner == SetKey(json_loads(Get(original_input, "Payload").doc),
                                        "input", Str(next_input))
                      new_input == SetKey(original_input, "Payload",
                                          Ser(json_dumps(inner)))
                  IN  [ok |-> TRUE,
                       target |-> [existing.Target EXCEPT !.Input = json_dumps(new_input)]]

\* lines 92-95: the optional fields carried into the request
KeptOptionalForgetsOne(existing) ==
    [f \in OptionalFields |->
        IF f # "ActionAfterCompletion" /\ existing.Optional[f] \notin {Absent, NoneVal}
        THEN existing.Optional[f] ELSE Absent]
KeptOptional(existing) ==
    [f \in OptionalFields |->
        IF existing.Optional[f] \notin {Absent, NoneVal}
        THEN existing.Optional[f] ELSE Absent]

\* lines 66, 82-95: update_params
update_params(existing, next_datetime, timezone, target) ==
    [ Name |-> "agent-schedule",
      GroupName |-> "default",
      ScheduleExpression |-> at_expression(next_datetime),
      ScheduleExpressionTimezone |-> timezone,
      FlexibleTimeWindow |-> existing.FlexibleTimeWindow,
      Target |-> target,
      Optional |-> KeptOptional(existing) ]

(***************************************************************************)
(* update_next_schedule.  next_execution is a text (a sequence of          *)
(* characters) or a well-formed ISO 8601 timestamp, given by what          *)
(* datetime.fromisoformat reads from it.                                   *)
(***************************************************************************)
Text(s) == [kind |-> "text", text |-> s, wall |-> 0, us |-> 0, off |-> "naive"]
Iso(w, u, o) == [kind |-> "iso", text |-> <<>>, wall |-> w, us |-> u, off |-> o]

RelTexts ==
    { <<"+", "0", "m">>, <<"+", "5", "m">>, <<"+", "2", "H">>, <<"+", "1", "d">>,
      <<"+", "3", "0", "m">>, <<"+", "5", "m", "x">>, <<"+", "m">>, <<"5", "m">> }
IsoWalls == {UtcOffset(z) + d : z \in Zones, d \in (0 - MaxSkew)..MaxSkew}
NextExecutions ==
    {Text(s) : s \in RelTexts} \cup
    {Iso(w, u, o) : w \in IsoWalls, u \in {0, 1}, o \in {"naive", "+00:00"}}
NextInputs == {NoneVal, "second run"}
Timezones == Zones \cup {UnknownZone}
Clocks == {[t |-> 0, us |-> u] : u \in {0, 1}}

NoTime == [wall |-> 0, us |-> 0, tz |-> "naive"]
IdleCall ==
    [ pc |-> "idle", clock |-> [t |-> 0, us |-> 0], next_execution |-> Text(<<>>),
      next_input |-> NoneVal, timezone |-> "UTC", now |-> NoTime, next_dt |-> NoTime,
      resolved |-> FALSE, params |-> NoSchedule.def, before |-> NoSchedule,
      result |-> "none", error |-> "none", reads |-> 0, writes |-> 0 ]

\* lines 197-198: except Exception as e: return f"Failed to update schedule: {e}"
FailedRaises(c, e) == [c EXCEPT !.pc = "done", !.result = "raised", !.error = e]
Failed(c, e) == [c EXCEPT !.pc = "done", !.result = "failed", !.error = e]

\* lines 167-174: next_dt, or the exception raised on the way
Resolve(next_execution, now) ==
    IF next_execution.kind = "text" /\ Len(next_execution.text) > 0
                                    /\ next_execution.text[1] = "+"
    THEN LET delta == parse_relative_time(next_execution.text)
         IN  IF delta.ok
             THEN [ok |-> TRUE, error |-> "none",
                   dt |-> [now EXCEPT !.wall = @ + delta.seconds]]
             ELSE [ok |-> FALSE, error |-> "InvalidFormat", dt |-> NoTime]
    ELSE IF next_execution.kind = "text"
    THEN [ok |-> FALSE, error |-> "InvalidIsoFormat", dt |-> NoTime]
    ELSE [ok |-> TRUE, error |-> "none",
          dt |-> [wall |-> next_execution.wall, us |-> next_execution.us,
                  tz |-> IF next_execution.off = "naive" THEN now.tz
                         ELSE next_execution.off]]

\* line 177: if next_dt <= now
NotInFutureStrict(next_dt, now) == dt_le(next_dt, now) /\ ~dt_le(now, next_dt)
NotInFuture(next_dt, now) == dt_le(next_dt, now)

\* lines 162-181, up to the await of the worker thread
update_next_schedule(c, clock, next_execution, next_input, timezone) ==
    LET c0 == [c EXCEPT !.clock = clock, !.next_execution = next_execution,
                        !.next_input = next_input, !.timezone = timezone,
                        !.before = store]
    IN  IF timezone \notin Zones THEN Failed(c0, "ZoneInfoNotFound")
        ELSE LET now == Now(clock, timezone)
                 r == Resolve(next_execution, now)
                 c1 == [c0 EXCEPT !.now = now, !.next_dt = r.dt, !.resolved = r.ok]
             IN  IF ~r.ok THEN Failed(c1, r.error)
                 ELSE IF NotInFuture(r.dt, now)
                 THEN [c1 EXCEPT !.pc = "done", !.result = "error_past",
                                 !.error = "PastOrPresentTime"]
                 ELSE [c1 EXCEPT !.pc = "thread"]

ToolCall(clock, next_execution, next_input, timezone) ==
    /\ call.pc = "idle"
    /\ call' = update_next_schedule(call, clock, next_execution, next_input, timezone)
    /\ UNCHANGED <<env, store>>

\* _update_schedule_sync in the worker thread, lines 53-95: the configuration
\* check, get_schedule (answered or failing), and the request built from it.
ReadAndBuildReadsFirst(cl, answered) ==
    LET c == [cl EXCEPT !.reads = @ + 1]
    IN  IF ~env THEN Failed(c, "ConfigurationMissing")
        ELSE IF ~answered THEN Failed(c, "StoreUnavailable")
        ELSE IF ~store.exists THEN Failed(c, "ResourceNotFound")
        ELSE LET t == NewTarget(store.def, cl.next_input)
             IN  IF ~t.ok THEN Failed(c, "PayloadMalformed")
                 ELSE [c EXCEPT !.pc = "write",
                         !.params = update_params(store.def, cl.next_dt,
                                                  cl.timezone, t.target)]
ReadAndBuild(cl, answered) ==
    IF ~env THEN Failed(cl, "ConfigurationMissing")
    ELSE LET c == [cl EXCEPT !.reads = @ + 1]
         IN  IF ~answered THEN Failed(c, "StoreUnavailable")
             ELSE IF ~store.exists THEN Failed(c, "ResourceNotFound")
             ELSE LET t == NewTarget(store.def, cl.next_input)
                  IN  IF ~t.ok THEN Failed(c, "PayloadMalformed")
                      ELSE [c EXCEPT !.pc = "write",
                              !.params = update_params(store.def, cl.next_dt,
                                                       cl.timezone, t.target)]

SyncRead(answered) ==
    /\ call.pc = "thread"
    /\ call' = ReadAndBuild(call, answered)
    /\ UNCHANGED <<env, store>>

\* line 98: the request update_schedule sends is the update_params dict built
\* after get_schedule; the store is not read again.
WriteRequestRebuilt(cl) ==
    IF ~store.exists THEN cl.params
    ELSE LET t == NewTarget(store.def, cl.next_input)
         IN  IF ~t.ok THEN cl.params
             ELSE update_params(store.def, cl.next_dt, cl.timezone, t.target)
WriteRequest(cl) == cl.params

\* line 98: update_schedule(**update_params) replaces the stored definition,
\* or fails and leaves it; lines 100-107, 183-198: the tool's answer.
Written(cl, accepted) ==
    IF accepted
    THEN [cl EXCEPT !.pc = "done", !.result = "updated", !.writes = @ + 1]
    ELSE [Failed(cl, "StoreUnavailable") EXCEPT !.writes = @ + 1]

SyncWrite(accepted) ==
    /\ call.pc = "write"
    /\ store' = IF accepted THEN [exists |-> TRUE, def |-> WriteRequest(call)] ELSE store
    /\ call' = Written(call, accepted)
    /\ UNCHANGED env

(***************************************************************************)
(* Several chains call update_next_schedule on the same schedule.  Each    *)
(* call runs _update_schedule_sync in its own worker thread (line 181), so *)
(* the get_schedule and update_schedule requests of different calls reach  *)
(* the store in any order.  history records the requests as served.        *)
(***************************************************************************)
MaxMutators == 2     \* chains rescheduling the same schedule
Mutators == 1..MaxMutators
ChainInputs == <<"run of chain 1", "run of chain 2", "run of chain 3">>
RaceInputs(m) == {NoneVal, ChainInputs[m]}
RaceZone == "Asia/Tokyo"
RaceExecutions == {Text(<<"+", "5", "m">>), Text(<<"+", "1", "d">>)}
RaceStores ==
    {[exists |-> TRUE, def |-> Definition(Envelope("default", Doc("default", InnerFull)), {})]}

Served(m, op, ok, def) == [m |-> m, op |-> op, ok |-> ok, def |-> def]

RaceCall(m, next_execution, next_input, timezone) ==
    /\ mutator[m].pc = "idle"
    /\ mutator' = [mutator EXCEPT ![m] =
          update_next_schedule(@, [t |-> 0, us |-> 0], next_execution, next_input,
                               timezone)]
    /\ UNCHANGED <<env, store, call, history>>

RaceRead(m, answered) ==
    /\ mutator[m].pc = "thread"
    /\ mutator' = [mutator EXCEPT ![m] = ReadAndBuild(@, answered)]
    /\ history' = Append(history, Served(m, "get_schedule", answered, store.def))
    /\ UNCHANGED <<env, store, call>>

RaceWrite(m, accepted) ==
    /\ mutator[m].pc = "write"
    /\ store' = IF accepted THEN [exists |-> TRUE, def |-> WriteRequest(mutator[m])]
                ELSE store
    /\ mutator' = [mutator EXCEPT ![m] = Written(@, accepted)]
    /\ history' = Append(history, Served(m, "update_schedule", accepted,
                                         WriteRequest(mutator[m])))
    /\ UNCHANGED <<env, call>>

(***************************************************************************)
(* send_sns_notification, lines 107-112: the "result" member of            *)
(* notification_data.  A string is the sequence of its code points; the    *)
(* argument is None or the engine's result object, given by its truth      *)
(* value and by what str() makes of it.                                    *)
(***************************************************************************)
MaxResultLen == 1500      \* longest str(result)
TruncateLimit == 1000     \* line 110
Marker == <<46, 46, 46, 40, 116, 114, 117, 110, 99, 97, 116, 101, 100, 41>>  \* "...(truncated)"
NoResult == [truthy |-> FALSE, text |-> <<>>]                   \* result=None
ResultOfLength(n) == [truthy |-> TRUE, text |-> [i \in 1..n |-> 32 + (i % 95)]]
Results == {NoResult} \cup {ResultOfLength(n) : n \in 0..MaxResultLen}
NoMember == [present |-> FALSE, text |-> <<>>]

notification_result_at_limit(result) ==
    IF ~result.truthy THEN NoMember
    ELSE LET result_str == result.text
         IN  IF Len(result_str) >= TruncateLimit
             THEN [present |-> TRUE, text |-> SubSeq(result_str, 1, TruncateLimit) \o Marker]
             ELSE [present |-> TRUE, text |-> result_str]
notification_result(result) ==
    IF ~result.truthy THEN NoMember                                  \* line 107
    ELSE LET result_str == result.text                               \* line 109
         IN  IF Len(result_str) > TruncateLimit                      \* line 110
             THEN [present |-> TRUE, text |-> SubSeq(result_str, 1, TruncateLimit) \o Marker]
             ELSE [present |-> TRUE, text |-> result_str]

BuildNotification ==
    /\ ~truncOut.called
    /\ truncOut' = [called |-> TRUE, result |-> notification_result(truncIn)]
    /\ UNCHANGED truncIn

\* _parse_relative_time called on its own
ParseCall ==
    /\ ~parseOut.called
    /\ parseOut' = [called |-> TRUE, res |-> parse_relative_time(parseIn)]
    /\ UNCHANGED parseIn

(***************************************************************************)
(* The entrypoint and the event loop.                                      *)
(***************************************************************************)
\* main, line 172: if payload.get("action") == "start"
IsStartOrMissing(p) == p.action \in {"start", Missing}
IsStart(p) == p.action = "start"

\* main, lines 172-174: add_async_task, create_task.  No await follows, so
\* the coroutine keeps the event loop until it returns.
MainDispatch(j, p) ==
    /\ running = 0
    /\ payload[j] = NoPayload
    /\ payload' = [payload EXCEPT ![j] = p]
    /\ running' = j
    /\ IF IsStart(p)
       THEN /\ tasks' = tasks \cup {nextId}
            /\ nextId' = nextId + 1
            /\ job' = [job EXCEPT ![j] = Spawn([@ EXCEPT !.task_id = nextId], p)]
       ELSE UNCHANGED <<tasks, nextId, job>>
    /\ UNCHANGED <<topic, response>>

\* main, lines 175-176: the response reaches the caller.
MainReturn(j) ==
    /\ running = j
    /\ running' = 0
    /\ response' = [response EXCEPT ![j] =
          IF IsStart(payload[j])
          THEN [status |-> "started", task_id |-> job[j].task_id]
          ELSE [status |-> "noop", task_id |-> 0]]
    /\ job' = [job EXCEPT ![j] = Log(@, "respond")]
    /\ UNCHANGED <<topic, tasks, nextId, payload>>

\* A step of background task j: from one await to the next.
StepInStartOrder(j, new) ==
    /\ running = 0
    /\ \A k \in Jobs : job[k].pc \notin {"unborn", "done"} => job[j].task_id <= job[k].task_id
    /\ job' = [job EXCEPT ![j] = new]
    /\ tasks' = Registry(job[j], new)
    /\ UNCHANGED <<topic, running, nextId, payload, response>>
Step(j, new) ==
    /\ running = 0
    /\ job' = [job EXCEPT ![j] = new]
    /\ tasks' = Registry(job[j], new)
    /\ UNCHANGED <<topic, running, nextId, payload, response>>

\* The task's first step, lines 130-144.
BgStart(j) ==
    /\ job[j].pc = "created"
    /\ Step(j, RunFromStart(job[j], payload[j]))

\* asyncio.sleep(seconds) is over, lines 139-144.
SleepDone(j) ==
    /\ job[j].pc = "sleeping"
    /\ Step(j, Invoke(Log(job[j], "wake")))

\* agent.invoke_async returned, lines 145-153.
EngineReturn(j) ==
    /\ job[j].pc = "invoking"
    /\ Step(j, NotifySuccess(Log(job[j], "engine_returned")))

\* agent.invoke_async raised, lines 155-163.
EngineRaise(j) ==
    /\ job[j].pc = "invoking"
    /\ Step(j, ExceptHandler(Raised(Log(job[j], "engine_raised"), "engine failure")))

\* The thread running sns_client.publish finished, lines 115-126.
PublishDone(j, r) ==
    /\ job[j].pc = "publishing"
    /\ LET st == Log(job[j], IF r = "ok" THEN "publish_ok" ELSE "publish_failed")
       IN  Step(j, IF job[j].mode = "success"
                   THEN AfterNotifySuccess(st, send_sns_notification(r))
                   ELSE AfterNotifyError(st, send_sns_notification(r)))

JobsInit ==
    /\ topic \in BOOLEAN
    /\ running = 0
    /\ tasks = {}
    /\ nextId = 1
    /\ payload = [j \in Jobs |-> NoPayload]
    /\ response = [j \in Jobs |-> NoResponse]
    /\ job = [j \in Jobs |-> NoJob]

SchedIdle == env = TRUE /\ store = NoSchedule /\ call = IdleCall
RaceIdle == mutator = [m \in Mutators |-> IdleCall] /\ history = <<>>
TruncIdle == truncIn = NoResult /\ truncOut = [called |-> FALSE, result |-> NoMember]
ParseIdle == parseIn = <<>> /\ parseOut = [called |-> FALSE, res |-> ParseError]
JobsIdle ==
    /\ topic = TRUE /\ running = 0 /\ tasks = {} /\ nextId = 1
    /\ payload = [j \in Jobs |-> NoPayload]
    /\ response = [j \in Jobs |-> NoResponse]
    /\ job = [j \in Jobs |-> NoJob]

Init == JobsInit /\ SchedIdle /\ ParseIdle /\ RaceIdle /\ TruncIdle

Next ==
    \/ \E j \in Jobs, p \in Payloads :
          MainDispatch(j, p) /\ UNCHANGED <<schedVars, parseVars, raceVars, truncVars>>
    \/ \E j \in Jobs : MainReturn(j) /\ UNCHANGED <<schedVars, parseVars, raceVars, truncVars>>
    \/ \E j \in Jobs : BgStart(j) /\ UNCHANGED <<schedVars, parseVars, raceVars, truncVars>>
    \/ \E j \in Jobs : SleepDone(j) /\ UNCHANGED <<schedVars, parseVars, raceVars, truncVars>>
    \/ \E j \in Jobs : EngineReturn(j) /\ UNCHANGED <<schedVars, parseVars, raceVars, truncVars>>
    \/ \E j \in Jobs : EngineRaise(j) /\ UNCHANGED <<schedVars, parseVars, raceVars, truncVars>>
    \/ \E j \in Jobs, r \in {"ok", "failed"} :
          PublishDone(j, r) /\ UNCHANGED <<schedVars, parseVars, raceVars, truncVars>>

Spec == Init /\ [][Next]_vars

\* The event loop runs every ready coroutine, every delay elapses, and every
\* engine invocation and publish call ends, by returning or by raising.
JobStep(j) ==
    /\ \/ MainReturn(j)
       \/ BgStart(j)
       \/ SleepDone(j)
       \/ EngineReturn(j)
       \/ EngineRaise(j)
       \/ \E r \in {"ok", "failed"} : PublishDone(j, r)
    /\ UNCHANGED <<schedVars, parseVars, raceVars, truncVars>>

\* The started jobs alone: every request is a start, with a delay that
\* elapses or a delay value that int() rejects.
StartRequests == {p \in Payloads : IsStart(p) /\ p.seconds \in {SecText, SecInt(MaxSleep)}}
NextLive ==
    \/ \E j \in Jobs, p \in StartRequests :
          MainDispatch(j, p) /\ UNCHANGED <<schedVars, parseVars, raceVars, truncVars>>
    \/ \E j \in Jobs : JobStep(j)

SpecLive == Init /\ [][NextLive]_vars /\ \A j \in Jobs : WF_vars(JobStep(j))

\* One call of the tool update_next_schedule against any initial store.
InitSched ==
    /\ JobsIdle /\ ParseIdle /\ RaceIdle /\ TruncIdle
    /\ env \in BOOLEAN
    /\ store \in Stores
    /\ call = IdleCall

NextSched ==
    \/ \E c \in Clocks, ne \in NextExecutions, ni \in NextInputs, tz \in Timezones :
          ToolCall(c, ne, ni, tz) /\ UNCHANGED <<jobVars, parseVars, raceVars, truncVars>>
    \/ \E answered \in BOOLEAN : SyncRead(answered) /\ UNCHANGED <<jobVars, parseVars, raceVars, truncVars>>
    \/ \E accepted \in BOOLEAN : SyncWrite(accepted) /\ UNCHANGED <<jobVars, parseVars, raceVars, truncVars>>

SpecSched == InitSched /\ [][NextSched]_vars

\* _parse_relative_time applied to every string over Alphabet up to MaxLen.
MaxLen == 4
Alphabet == {"+", "1", "5", "m", "H", "d", "x"}
RECURSIVE StringsOf(_)
StringsOf(n) ==
    IF n = 0 THEN {<<>>}
    ELSE LET shorter == StringsOf(n - 1)
         IN  shorter \cup {Append(s, c) : s \in {t \in shorter : Len(t) = n - 1},
                                          c \in Alphabet}
Strings == StringsOf(MaxLen)

InitParse ==
    /\ JobsIdle /\ SchedIdle /\ RaceIdle /\ TruncIdle
    /\ parseIn \in Strings
    /\ parseOut = [called |-> FALSE, res |-> ParseError]

NextParse == ParseCall /\ UNCHANGED <<jobVars, schedVars, raceVars, truncVars>>

SpecParse == InitParse /\ [][NextParse]_vars

\* Concurrent calls of update_next_schedule on one existing schedule.
InitRace ==
    /\ JobsIdle /\ ParseIdle /\ RaceIdle /\ TruncIdle
    /\ env = TRUE
    /\ store \in RaceStores
    /\ call = IdleCall

NextRace ==
    \/ \E m \in Mutators, ne \in RaceExecutions :
          \E ni \in RaceInputs(m) :
              RaceCall(m, ne, ni, RaceZone) /\ UNCHANGED <<jobVars, parseVars, truncVars>>
    \/ \E m \in Mutators, answered \in BOOLEAN :
          RaceRead(m, answered) /\ UNCHANGED <<jobVars, parseVars, truncVars>>
    \/ \E m \in Mutators, accepted \in BOOLEAN :
          RaceWrite(m, accepted) /\ UNCHANGED <<jobVars, parseVars, truncVars>>

SpecRace == InitRace /\ [][NextRace]_vars

\* send_sns_notification building notification_data for every result.
InitTrunc ==
    /\ JobsIdle /\ SchedIdle /\ ParseIdle /\ RaceIdle
    /\ truncIn \in Results
    /\ truncOut = [called |-> FALSE, result |-> NoMember]

NextTrunc == BuildNotification /\ UNCHANGED <<jobVars, schedVars, parseVars, raceVars>>

SpecTrunc == InitTrunc /\ [][NextTrunc]_vars

(***************************************************************************)
(* Properties of the job lifecycle (specification Spec).                   *)
(***************************************************************************)
\* every occurrence of b in the log has an a somewhere before it
Before(log, a, b) ==
    \A k \in DOMAIN log : log[k] = b => \E i \in 1..(k - 1) : log[i] = a
BeforeAny(log, as, b) ==
    \A k \in DOMAIN log : log[k] = b => \E i \in 1..(k - 1) : log[i] \in as
Dispatches == {"publish_success", "publish_error"}     \* calls of sns_client.publish
NotifyCalls == Dispatches \cup {"notify_skipped"}       \* calls of send_sns_notification
Finished(j) == job[j].pc = "done"

\* C1: every job that ran to its end released its task slot exactly once,
\* whatever the outcome (engine returned, engine raised, delay raised, publish
\* failed on either path); no job releases twice; a finished job's handle is
\* no longer registered and an unfinished job has not released.
C1_ReleasedExactlyOnce ==
    \A j \in Jobs :
        /\ Count(job[j].log, "release") <= 1
        /\ Finished(j) => Count(job[j].log, "release") = 1
        /\ Finished(j) => job[j].task_id \notin tasks
        /\ (job[j].pc \notin {"unborn", "done"}) =>
               /\ Count(job[j].log, "release") = 0
               /\ job[j].task_id \in tasks

\* C1 witness: the engine raised, the error notification's publish failed,
\* and the slot was released once.
C1_Witness ==
    \E j \in Jobs :
        /\ Finished(j)
        /\ Has(job[j].log, "engine_raised")
        /\ Has(job[j].log, "publish_failed")
        /\ Count(job[j].log, "release") = 1

\* C2: the caller has its {started, handle} response before the engine is
\* invoked for that job, and the response never waits for the engine.
C2_RespondBeforeInvoke ==
    \A j \in Jobs :
        /\ Before(job[j].log, "respond", "invoke")
        /\ Has(job[j].log, "invoke") =>
               response[j] = [status |-> "started", task_id |-> job[j].task_id]
        /\ (job[j].pc \notin {"unborn", "created"}) => response[j].status = "started"

\* C2 witness: the engine is blocked in its invocation and the caller already
\* holds the response.
C2_Witness ==
    \E j \in Jobs :
        /\ job[j].pc = "invoking"
        /\ response[j].status = "started"
        /\ response[j].task_id = job[j].task_id

Delayed(j) == payload[j].seconds.kind = "int" /\ payload[j].seconds.val > 0

\* C3 as stated: delay -> invoke -> notify -> release, with no notification
\* dispatched before the engine invocation has returned or raised.
C3_Original ==
    \A j \in Jobs :
        /\ Delayed(j) => Before(job[j].log, "wake", "invoke")
        /\ \A d \in Dispatches :
               BeforeAny(job[j].log, {"engine_returned", "engine_raised"}, d)
        /\ \A k \in DOMAIN job[j].log :
               job[j].log[k] = "release" =>
                   /\ \E i \in 1..(k - 1) : job[j].log[i] \in NotifyCalls
                   /\ job[j].log[k - 1] \in {"notify_returned", "notify_raised"}

\* C3 amended: as C3, except that when the delay/input handling itself raises
\* an error notification is dispatched without the engine ever being invoked;
\* a success notification still needs the engine to have returned, and the
\* engine is never invoked after a notification was dispatched.
C3_StrictOrder ==
    \A j \in Jobs :
        /\ Delayed(j) => Before(job[j].log, "wake", "invoke")
        /\ Before(job[j].log, "engine_returned", "publish_success")
        /\ \A d \in NotifyCalls :
               BeforeAny(job[j].log, {"engine_returned", "engine_raised", "delay_raised"}, d)
        /\ Has(job[j].log, "delay_raised") => ~Has(job[j].log, "invoke")
        /\ \A d \in NotifyCalls : \A k \in DOMAIN job[j].log :
               job[j].log[k] = d => \A i \in (k + 1)..Len(job[j].log) :
                   job[j].log[i] \notin {"invoke", "wake", "sleep"}
        /\ \A k \in DOMAIN job[j].log :
               job[j].log[k] = "release" =>
                   /\ \E i \in 1..(k - 1) : job[j].log[i] \in NotifyCalls
                   /\ job[j].log[k - 1] \in {"notify_returned", "notify_raised"}
                   /\ k = Len(job[j].log)

\* C3 witness: a delayed job went through sleep, invoke, publish and release.
C3_Witness ==
    \E j \in Jobs :
        /\ Delayed(j)
        /\ Finished(j)
        /\ Has(job[j].log, "wake")
        /\ Has(job[j].log, "engine_returned")
        /\ Has(job[j].log, "publish_ok")

\* C10: send_sns_notification never raises to _background_run: a failed
\* publish is absorbed and the call returns; without SNS_TOPIC_ARN no publish
\* call is made at all and the call returns.
C10_NotifyNeverRaises ==
    \A j \in Jobs :
        /\ ~Has(job[j].log, "notify_raised")
        /\ ~job[j].escaped
        /\ \A k \in DOMAIN job[j].log :
               job[j].log[k] \in {"publish_failed", "publish_ok", "notify_skipped"} =>
                   /\ k < Len(job[j].log)
                   /\ job[j].log[k + 1] = "notify_returned"
        /\ ~topic => \A e \in {"publish_success", "publish_error",
                               "publish_ok", "publish_failed"} : ~Has(job[j].log, e)

\* C10 witness: a publish failed and the notification call returned normally.
C10_Witness ==
    \E j \in Jobs : \E k \in DOMAIN job[j].log :
        /\ job[j].log[k] = "publish_failed"
        /\ k < Len(job[j].log)
        /\ job[j].log[k + 1] = "notify_returned"

\* C11: a failure of the engine is absorbed by the job runner: one error
\* notification carrying the error description is dispatched (one call of
\* send_sns_notification, and one publish when a topic is configured), no
\* success notification, nothing propagates out of the task, and the engine is
\* invoked at most once per job.
C11_EngineFailureAbsorbed ==
    \A j \in Jobs :
        /\ Count(job[j].log, "invoke") <= 1
        /\ ~job[j].escaped
        /\ Has(job[j].log, "engine_raised") =>
               /\ Count(job[j].log, "except") = 1
               /\ Count(job[j].log, "publish_error")
                    + Count(job[j].log, "notify_skipped") = 1
               /\ Count(job[j].log, "publish_error") = (IF topic THEN 1 ELSE 0)
               /\ Count(job[j].log, "publish_success") = 0
               /\ topic => job[j].mode = "error"
               /\ job[j].message = "engine failure"
               /\ job[j].pc \in {"publishing", "done"}

\* C11 witness: the engine raised, the error notification was published and
\* the task ended without an exception.
C11_Witness ==
    \E j \in Jobs :
        /\ Finished(j)
        /\ Has(job[j].log, "engine_raised")
        /\ Has(job[j].log, "publish_error")
        /\ Has(job[j].log, "publish_ok")
        /\ job[j].message = "engine failure"
        /\ ~job[j].escaped

\* C15: the caller gets {started, handle} exactly when the request's action
\* is "start" and {noop} for every other request; a request that is not a
\* start registers no task and launches no job; the response is never any
\* other status and does not change with the job's outcome.
C15_StartedIffStart ==
    /\ nextId - 1 = Cardinality({j \in Jobs : payload[j].action = "start"})
    /\ \A j \in Jobs :
          /\ response[j] # NoResponse =>
                 /\ response[j].status \in {"started", "noop"}
                 /\ response[j].status = "started" <=> payload[j].action = "start"
                 /\ response[j].status = "started" =>
                        response[j].task_id = job[j].task_id /\ job[j].task_id > 0
                 /\ response[j].status = "noop" => response[j].task_id = 0
          /\ (payload[j] # NoPayload /\ payload[j].action # "start") =>
                 /\ job[j].pc = "unborn"
                 /\ job[j].task_id = 0
                 /\ \A i \in DOMAIN job[j].log : job[j].log[i] = "respond"
          /\ payload[j].action = "start" => job[j].pc # "unborn"
          /\ job[j].pc \notin {"unborn", "created"} =>
                 response[j] = [status |-> "started", task_id |-> job[j].task_id]

\* C15 witness: a request without an action was answered noop with nothing
\* registered for it, and a started job whose engine raised left its caller
\* with the started response.
C15_Witness ==
    \E j, k \in Jobs :
        /\ payload[j].action = Missing
        /\ response[j].status = "noop"
        /\ job[j].pc = "unborn"
        /\ Finished(k)
        /\ Has(job[k].log, "engine_raised")
        /\ response[k].status = "started"
        /\ nextId = 2

\* C17: under fair scheduling, with every delay, engine invocation and
\* publish call ending, every started job reaches Released, and no handle
\* stays in the registry forever.
C17_EventuallyReleased ==
    /\ \A j \in Jobs :
          (job[j].pc = "created") ~>
              (Finished(j) /\ Has(job[j].log, "release") /\ job[j].task_id \notin tasks)
    /\ \A id \in 1..MaxJobs : (id \in tasks) ~> (id \notin tasks)

\* C17 witness: a delayed job whose engine raised and whose error
\* notification failed to publish is released and the registry is empty.
C17_Witness ==
    \E j \in Jobs :
        /\ Has(job[j].log, "wake")
        /\ Has(job[j].log, "engine_raised")
        /\ Has(job[j].log, "publish_failed")
        /\ Has(job[j].log, "release")
        /\ Finished(j)
        /\ tasks = {}

Notified(j) == Cardinality({i \in DOMAIN job[j].log : job[j].log[i] \in NotifyCalls})
NotifiedSuccess(j) == Notified(j) > 0 /\ job[j].message = "completed"
NotifiedError(j) == Notified(j) > 0 /\ job[j].message # "completed"

\* C19: a job calls the notifier exactly once, with status success only
\* right after the engine was invoked and returned, and with status error
\* exactly when the delay step or the engine raised (the engine never invoked
\* in the first case); no job sends both.
C19_OneNotification ==
    \A j \in Jobs :
        LET log == job[j].log
        IN  /\ Notified(j) <= 1
            /\ Finished(j) => Notified(j) = 1
            /\ Count(log, "publish_success") + Count(log, "publish_error") <= 1
            /\ Has(log, "publish_success") => NotifiedSuccess(j) /\ job[j].mode = "success"
            /\ Has(log, "publish_error") => NotifiedError(j) /\ job[j].mode = "error"
            /\ NotifiedSuccess(j) =>
                   /\ Has(log, "invoke") /\ Has(log, "engine_returned")
                   /\ ~Has(log, "except")
                   /\ \A k \in DOMAIN log :
                          log[k] \in NotifyCalls => k > 1 /\ log[k - 1] = "engine_returned"
            /\ Has(log, "except") <=> (Has(log, "delay_raised") \/ Has(log, "engine_raised"))
            /\ Has(log, "except") <=> NotifiedError(j)
            /\ Has(log, "delay_raised") => ~Has(log, "invoke")
            /\ (topic /\ Notified(j) = 1) =>
                   Count(log, "publish_success") + Count(log, "publish_error") = 1

\* C19 witness: the success notification's publish failed and the job ended
\* with that one notification, no error notification following it.
C19_Witness ==
    \E j \in Jobs :
        /\ Finished(j)
        /\ Has(job[j].log, "publish_success")
        /\ Has(job[j].log, "publish_failed")
        /\ ~Has(job[j].log, "publish_error")
        /\ Notified(j) = 1

InFlight == {j \in Jobs : job[j].pc \notin {"unborn", "done"}}
Released(j) == Count(job[j].log, "release")

\* C18: the registered handles are exactly the handles of the jobs started
\* and not yet released, in-flight jobs have distinct handles, and the
\* registry changes only by the start of a job, which inserts that job's
\* handle, and by a job's finalizer, which removes that job's handle.
C18_RegistryInvariant ==
    /\ [](/\ tasks = {job[j].task_id : j \in InFlight}
          /\ \A j, k \in InFlight : j # k => job[j].task_id # job[k].task_id
          /\ \A j \in InFlight : job[j].task_id > 0 /\ Released(j) = 0)
    /\ [][\A id \in 1..MaxJobs :
            /\ (id \notin tasks /\ id \in tasks') =>
                   \E j \in Jobs : /\ payload[j] = NoPayload
                                   /\ payload'[j].action = "start"
                                   /\ job[j].pc = "unborn"
                                   /\ job'[j].task_id = id
            /\ (id \in tasks /\ id \notin tasks') =>
                   \E j \in Jobs : /\ job[j].task_id = id
                                   /\ Released(j) = 0
                                   /\ Released(j)' = 1
                                   /\ job'[j].pc = "done"]_vars

\* C18 witness: two jobs in flight with two handles registered, one already
\* past its engine invocation.
C18_Witness ==
    /\ Cardinality(tasks) = 2
    /\ Cardinality(InFlight) = 2
    /\ \E j \in InFlight : job[j].pc = "publishing"

Suspended == {"sleeping", "invoking", "publishing"}
StartRequest == [action |-> "start", seconds |-> SecMissing]

\* C14: while a job is suspended in its delay, in the engine invocation or in
\* the publish call and no `main` coroutine holds the loop, the entrypoint
\* can take a further request and every other in-flight job can take its next
\* step, whichever it is (start, wake and invoke, notify, release).
C14_JobsDoNotBlock ==
    \A j \in Jobs :
        (running = 0 /\ job[j].pc \in Suspended) =>
            \A k \in Jobs \ {j} :
                /\ payload[k] = NoPayload => ENABLED MainDispatch(k, StartRequest)
                /\ job[k].pc = "created" => ENABLED BgStart(k)
                /\ job[k].pc = "sleeping" => ENABLED SleepDone(k)
                /\ job[k].pc = "invoking" => ENABLED EngineReturn(k) /\ ENABLED EngineRaise(k)
                /\ job[k].pc = "publishing" =>
                       ENABLED PublishDone(k, "ok") /\ ENABLED PublishDone(k, "failed")

\* C14 witness: the job dispatched second went through invoke, notify and
\* release while the job dispatched first was still suspended.
C14_Witness ==
    \E j, k \in Jobs :
        /\ job[j].task_id > 0
        /\ job[j].task_id < job[k].task_id
        /\ job[j].pc \in Suspended
        /\ Finished(k)
        /\ Has(job[k].log, "engine_returned")
        /\ Has(job[k].log, "publish_ok")
        /\ Has(job[k].log, "release")

(***************************************************************************)
(* Properties of the schedule mutator (specification SpecSched).           *)
(***************************************************************************)
Called == call.pc # "idle"
Updated == call.pc = "done" /\ call.result = "updated"
Submitted == call.pc = "write" \/ call.writes > 0
\* the instant a definition's (ScheduleExpression, ScheduleExpressionTimezone) denotes
AtInstant(def) == def.ScheduleExpression.wall - UtcOffset(def.ScheduleExpressionTimezone)
\* a <= b as instants, whatever their zones
InstantLe(a, b) ==
    Instant(a) < Instant(b) \/ (Instant(a) = Instant(b) /\ a.us <= b.us)
Without(d, k) == SelectSeq(d, LAMBDA p : p[1] # k)
InnerOf(input) ==
    IF HasKey(input.pairs, "Payload") THEN Get(input.pairs, "Payload").doc.pairs ELSE <<>>

\* C4: whenever a write is submitted, the written (time_expression, timezone)
\* denotes an instant strictly after the `now` used for validation.
C4_NeverPublishesElapsed ==
    Submitted => AtInstant(call.params) > call.clock.t

\* C5: when the resolved instant is <= now the tool answers PastOrPresentTime
\* and touches the store neither by a read nor by a write.
C5_PastRejected ==
    (Called /\ call.resolved /\ InstantLe(call.next_dt, call.now)) =>
        /\ call.pc = "done"
        /\ call.result = "error_past"
        /\ call.error = "PastOrPresentTime"
        /\ call.reads = 0 /\ call.writes = 0
        /\ store = call.before

\* C5 witness: an absolute timestamp equal to now was rejected while a
\* schedule exists in the store.
C5_Witness ==
    /\ call.result = "error_past"
    /\ call.next_execution.kind = "iso"
    /\ Instant(call.next_dt) = Instant(call.now) /\ call.next_dt.us = call.now.us
    /\ store.exists

\* C6: after a successful mutation every field other than the time expression,
\* the timezone and the nested payload's input has its prior value: identity,
\* flexible time window, the target's other fields, the envelope's and the
\* inner payload's other members, and each optional field.
C6_OtherFieldsKept ==
    Updated =>
        LET b == call.before.def
            a == store.def
        IN  /\ store.exists /\ call.before.exists
            /\ a.Name = b.Name /\ a.GroupName = b.GroupName
            /\ a.FlexibleTimeWindow = b.FlexibleTimeWindow
            /\ a.Target.Arn = b.Target.Arn /\ a.Target.RoleArn = b.Target.RoleArn
            /\ \A f \in OptionalFields : a.Optional[f] = b.Optional[f]
            /\ Without(a.Target.Input.pairs, "Payload") =
                   Without(b.Target.Input.pairs, "Payload")
            /\ Without(InnerOf(a.Target.Input), "input") =
                   Without(InnerOf(b.Target.Input), "input")

\* C6 witness: a definition with every optional field set and a payload with
\* sibling members was rewritten with a new input.
C6_Witness ==
    /\ Updated
    /\ call.next_input # NoneVal
    /\ \A f \in OptionalFields : call.before.def.Optional[f] # Absent
    /\ Len(Without(InnerOf(call.before.def.Target.Input), "input")) >= 2

\* C7: a successful reschedule with next_input = None leaves the whole target
\* (envelope and inner payload as stored) and all optional fields unchanged;
\* the definition differs from the prior one in time expression and timezone only.
C7_NoInputKeepsPayload ==
    (Updated /\ call.next_input = NoneVal) =>
        /\ store.def.Target = call.before.def.Target
        /\ store.def.Optional = call.before.def.Optional
        /\ [store.def EXCEPT
               !.ScheduleExpression = call.before.def.ScheduleExpression,
               !.ScheduleExpressionTimezone = call.before.def.ScheduleExpressionTimezone]
             = call.before.def

\* C7 witness: a definition with every optional field set and a payload not in
\* json.dumps' layout was rescheduled without a new input.
C7_Witness ==
    /\ Updated
    /\ call.next_input = NoneVal
    /\ \A f \in OptionalFields : call.before.def.Optional[f] # Absent
    /\ call.before.def.Target.Input.fmt = "compact"

\* the duration "+<N><unit>" denotes, for the well-formed relative specs used
C8_Duration(text) ==
    CASE text = <<"+", "5", "m">> -> 5 * 60
      [] text = <<"+", "3", "0", "m">> -> 30 * 60
      [] text = <<"+", "2", "H">> -> 2 * 60 * 60
      [] text = <<"+", "1", "d">> -> 24 * 60 * 60
      [] OTHER -> 0
C8_WellFormed(ne) == ne.kind = "text" /\ C8_Duration(ne.text) > 0

\* C8: after a successful reschedule with "+<N><unit>" and a next_input, the
\* stored definition has the time expression at(now + N units) (wall clock of
\* the given timezone, to the second), the given timezone, the nested input
\* equal to next_input, and every sibling member of the inner payload and of
\* the envelope as before.
C8_RoundTrip ==
    (Updated /\ C8_WellFormed(call.next_execution) /\ call.next_input # NoneVal) =>
        /\ store.def.ScheduleExpression =
               [form |-> "at",
                wall |-> call.clock.t + UtcOffset(call.timezone)
                           + C8_Duration(call.next_execution.text)]
        /\ store.def.ScheduleExpressionTimezone = call.timezone
        /\ AtInstant(store.def) = call.clock.t + C8_Duration(call.next_execution.text)
        /\ HasKey(InnerOf(store.def.Target.Input), "input")
        /\ Get(InnerOf(store.def.Target.Input), "input") = Str(call.next_input)
        /\ Without(InnerOf(store.def.Target.Input), "input") =
               Without(InnerOf(call.before.def.Target.Input), "input")
        /\ Without(store.def.Target.Input.pairs, "Payload") =
               Without(call.before.def.Target.Input.pairs, "Payload")
        /\ [i \in DOMAIN store.def.Target.Input.pairs |-> store.def.Target.Input.pairs[i][1]]
             = [i \in DOMAIN call.before.def.Target.Input.pairs |->
                    call.before.def.Target.Input.pairs[i][1]]

\* C8 witness: the spec's scenario, "+5m" in Asia/Tokyo with a new input.
C8_Witness ==
    /\ Updated
    /\ call.next_execution = Text(<<"+", "5", "m">>)
    /\ call.timezone = "Asia/Tokyo"
    /\ call.next_input = "second run"
    /\ store.def.ScheduleExpression = [form |-> "at", wall |-> 32400 + 300]
    /\ HasKey(InnerOf(call.before.def.Target.Input), "input")

\* C12: every failure of the scheduling tool is returned as a failure string
\* that names its cause, never raised: a finished call has returned the
\* confirmation, the "must be in the future" error or "Failed to update
\* schedule: ...", and it returned the confirmation only when the write was
\* accepted.
C12_FailuresReturned ==
    /\ call.result \in {"none", "updated", "error_past", "failed"}
    /\ call.pc = "done" =>
          /\ call.result \in {"updated", "error_past", "failed"}
          /\ call.result = "updated" <=> call.error = "none"
          /\ call.result = "updated" => call.writes = 1 /\ store.def = call.params
          /\ call.timezone \notin Zones =>
                 call.result = "failed" /\ call.error = "ZoneInfoNotFound"
          /\ (call.timezone \in Zones /\ call.next_execution.kind = "text") =>
                 (~parse_relative_time(call.next_execution.text).ok =>
                     /\ call.result = "failed"
                     /\ call.error \in {"InvalidFormat", "InvalidIsoFormat"})
          /\ (call.resolved /\ InstantLe(call.next_dt, call.now)) =>
                 call.result = "error_past" /\ call.error = "PastOrPresentTime"
          /\ (call.resolved /\ ~InstantLe(call.next_dt, call.now)) =>
                 /\ ~env => call.result = "failed" /\ call.error = "ConfigurationMissing"
                 /\ (env /\ ~call.before.exists) =>
                        /\ call.result = "failed"
                        /\ call.error \in {"ResourceNotFound", "StoreUnavailable"}
                 /\ (env /\ call.writes = 1 /\ call.result # "updated") =>
                        call.result = "failed" /\ call.error = "StoreUnavailable"

\* C12 witness: the store refused the write and the tool returned the failure
\* string.
C12_Witness ==
    /\ call.pc = "done"
    /\ call.writes = 1
    /\ call.result = "failed"
    /\ call.error = "StoreUnavailable"

\* C20: a call that fails before update_schedule leaves the stored
\* definition as it was.  A rejected relative text or timestamp, an instant
\* not in the future, an unknown zone and a missing SCHEDULE_NAME fail with
\* no request sent to the store; a failing get_schedule, a missing schedule
\* and a payload that cannot be unwrapped fail after the one read, with no
\* write.
C20_FailureLeavesStore ==
    /\ (Called /\ call.writes = 0) => store = call.before
    /\ call.reads <= 1 /\ call.writes <= call.reads
    /\ call.pc = "done" =>
          /\ call.timezone \notin Zones => call.reads = 0 /\ call.writes = 0
          /\ (call.timezone \in Zones /\ call.next_execution.kind = "text"
                /\ ~parse_relative_time(call.next_execution.text).ok) =>
                 call.reads = 0 /\ call.writes = 0 /\ call.result = "failed"
          /\ (call.resolved /\ InstantLe(call.next_dt, call.now)) =>
                 call.reads = 0 /\ call.writes = 0 /\ call.result = "error_past"
          /\ ~env => call.reads = 0 /\ call.writes = 0 /\ call.result # "updated"
          /\ (call.reads = 1 /\ ~call.before.exists) =>
                 call.writes = 0 /\ call.result = "failed"
          /\ (call.reads = 1 /\ call.before.exists
                /\ ~NewTarget(call.before.def, call.next_input).ok) =>
                 call.writes = 0 /\ call.result = "failed"
          /\ call.error \in {"ResourceNotFound", "PayloadMalformed"} =>
                 call.reads = 1 /\ call.writes = 0 /\ store = call.before
          /\ call.error \in {"InvalidFormat", "InvalidIsoFormat", "PastOrPresentTime",
                              "ZoneInfoNotFound", "ConfigurationMissing"} =>
                 call.reads = 0 /\ call.writes = 0 /\ store = call.before

\* C20 witness: the schedule exists, its payload could not be unwrapped, and
\* the call failed after its read with the definition unchanged.
C20_Witness ==
    /\ call.pc = "done"
    /\ call.error = "PayloadMalformed"
    /\ call.reads = 1
    /\ call.writes = 0
    /\ store.exists
    /\ store = call.before

(***************************************************************************)
(* Properties of concurrent mutators (specification SpecRace).             *)
(***************************************************************************)
AcceptedWrites == {i \in DOMAIN history : history[i].op = "update_schedule" /\ history[i].ok}
LastWrite == CHOOSE k \in AcceptedWrites : \A i \in AcceptedWrites : i <= k
ReadBy(m) == CHOOSE i \in DOMAIN history : history[i].m = m /\ history[i].op = "get_schedule"
InputOf(def) == Get(InnerOf(def.Target.Input), "input")
\* the write at j by another mutator fell between the last writer's read and write
LostUpdates ==
    {j \in AcceptedWrites : j < LastWrite /\ ReadBy(history[LastWrite].m) < j}

\* C13: get_schedule and update_schedule of concurrent calls are separate
\* steps that the store serves in any order (a pending step of one mutator is
\* never held back by another); the stored definition is the request of the
\* last accepted write, built from what that writer itself read, and a
\* definition another mutator wrote in between, its nested input included, is
\* gone.
C13_LastWriterWins ==
    /\ \A m \in Mutators :
          /\ mutator[m].pc = "thread" => ENABLED RaceRead(m, TRUE)
          /\ mutator[m].pc = "write" => ENABLED RaceWrite(m, TRUE)
    /\ AcceptedWrites = {} => store \in RaceStores
    /\ AcceptedWrites # {} =>
          LET w == history[LastWrite].m
              d == history[ReadBy(w)].def
          IN  /\ ReadBy(w) < LastWrite
              /\ store.def = history[LastWrite].def
              /\ store.def = update_params(d, mutator[w].next_dt, mutator[w].timezone,
                                           NewTarget(d, mutator[w].next_input).target)
              /\ InputOf(store.def) = IF mutator[w].next_input = NoneVal THEN InputOf(d)
                                      ELSE Str(mutator[w].next_input)
              /\ \A j \in LostUpdates :
                    LET o == history[j].m
                    IN  /\ o # w
                        /\ mutator[o].result = "updated"
                        /\ mutator[o].next_input # NoneVal =>
                               InputOf(store.def) # Str(mutator[o].next_input)

\* C13 witness: both mutators read, the second wrote its new input, then the
\* first wrote: the second's input is no longer stored although its call
\* reported success.
C13_Witness ==
    /\ Len(history) = 4
    /\ history[1].m = 1 /\ history[1].op = "get_schedule"
    /\ history[2].m = 2 /\ history[2].op = "get_schedule"
    /\ history[3].m = 2 /\ history[3].op = "update_schedule" /\ history[3].ok
    /\ history[4].m = 1 /\ history[4].op = "update_schedule" /\ history[4].ok
    /\ mutator[2].next_input # NoneVal
    /\ mutator[2].result = "updated"
    /\ InputOf(history[3].def) = Str(mutator[2].next_input)
    /\ InputOf(store.def) # Str(mutator[2].next_input)

(***************************************************************************)
(* Properties of the notification's result (specification SpecTrunc).      *)
(***************************************************************************)
\* C16: the result placed in the notification is str(result) itself when it
\* has at most 1000 characters, and otherwise its first 1000 characters
\* followed by the marker "...(truncated)".
C16_Truncation ==
    (truncOut.called /\ truncIn.truthy) =>
        LET s == truncIn.text
            r == truncOut.result.text
        IN  /\ truncOut.result.present
            /\ Len(s) <= 1000 => r = s
            /\ Len(s) > 1000 =>
                   /\ Len(r) = 1000 + Len(Marker)
                   /\ \A i \in 1..1000 : r[i] = s[i]
                   /\ \A i \in 1..Len(Marker) : r[1000 + i] = Marker[i]

\* C16 witness: a result of 1500 characters was cut to 1000 plus the marker.
C16_Witness ==
    /\ truncOut.called
    /\ Len(truncIn.text) = 1500
    /\ Len(truncOut.result.text) = 1014
    /\ truncOut.result.text[1000] = truncIn.text[1000]
    /\ truncOut.result.text[1001] = 46

(***************************************************************************)
(* Properties of the relative-time parser (specification SpecParse).       *)
(***************************************************************************)
\* '+', one or more digits, one of m/h/d in either case, and nothing else
C9_WellFormed(s) ==
    /\ Len(s) >= 3
    /\ s[1] = "+"
    /\ \A i \in 2..(Len(s) - 1) : s[i] \in Digits
    /\ Lower(s[Len(s)]) \in {"m", "h", "d"}

\* C9: the parser accepts exactly the well-formed strings, giving N minutes,
\* hours or days, and fails on every other string.
C9_AcceptsExactlyGrammar ==
    parseOut.called =>
        /\ parseOut.res.ok <=> C9_WellFormed(parseIn)
        /\ parseOut.res.ok =>
               parseOut.res.seconds =
                   IntOf(parseIn, 2, Len(parseIn) - 1) * UnitSeconds(Lower(parseIn[Len(parseIn)]))

====
